---- MODULE Spec2Model ----
(***************************************************************************)
(* Sliding DFT (sgraf812/sdft): the Window Engine (Impl<Float>) and the    *)
(* Combiner (Combined<Float>) of src/src/sdft.cpp, in exact arithmetic.    *)
(* Complex numbers are pairs <<re, im>> of integers; the window sizes are  *)
(* those whose phase offsets exp(2*pi*i*k/W) are Gaussian integers.        *)
(* C arrays are 0-based, sequences 1-based: a[k] in the code is a[k + 1].  *)
(***************************************************************************)
EXTENDS Integers, Sequences, FiniteSets, TLC

VARIABLES
    fst,         \* sdft_State fst: an Impl (the single engine s of the tests)
    snd,         \* sdft_State snd: an Impl
    combined,    \* sdft_State combined: a Combined once sdft_init_combine built it
    nested,      \* sdft_State handed to sdft_init_combine with a Combined operand
    ref,         \* an Impl of its own, fed the same stream as combined
    op,          \* the operation that ran last
    err,         \* the sdft_Error it returned
    next_sample, \* the sample it was passed, if it was a push
    ret,         \* the content of the buffer it returned
    ret_ref,     \* the content of the buffer the same call on ref returned
    pushed,      \* history: the last W accepted samples, oldest first, zero-filled
    npushed,     \* history: accepted pushes so far, counted up to W
    nunshift,    \* history: unshift calls so far (SpecIdem: since the last push)
    initial      \* history: the window and spectrum the caller supplied

vars == <<fst, snd, combined, nested, ref, op, err, next_sample, ret, ret_ref,
          pushed, npushed, nunshift, initial>>

----------------------------------------------------------------------------
\* Enumerations of include/sdft/sdft.h

SDFT_SINGLE == "SDFT_SINGLE"
SDFT_DOUBLE == "SDFT_DOUBLE"
SDFT_LONG_DOUBLE == "SDFT_LONG_DOUBLE"
sdft_FloatPrecision == {SDFT_SINGLE, SDFT_DOUBLE, SDFT_LONG_DOUBLE}

SDFT_REAL_AND_IMAG == "SDFT_REAL_AND_IMAG"
SDFT_REAL_ONLY == "SDFT_REAL_ONLY"
SDFT_IMAG_ONLY == "SDFT_IMAG_ONLY"
sdft_SignalTraits == {SDFT_REAL_AND_IMAG, SDFT_REAL_ONLY, SDFT_IMAG_ONLY}

SDFT_NO_ERROR == "SDFT_NO_ERROR"
SDFT_WINDOW_TOO_SHORT == "SDFT_WINDOW_TOO_SHORT"
SDFT_SIGNAL_TRAIT_VIOLATION == "SDFT_SIGNAL_TRAIT_VIOLATION"
SDFT_NOT_COMBINABLE == "SDFT_NOT_COMBINABLE"

----------------------------------------------------------------------------
\* Bounds of the model

\* Window sizes W for which exp(2*pi*i*k/W) is one of 1, i, -1, -i.
WindowSizes == {1, 2, 4}

\* The samples a caller pushes: 0, 1 and i.
Samples == {<<0, 0>>, <<1, 0>>, <<0, 1>>}

\* Unshift calls on a single engine (a wrong rotation lets the spectrum drift).
MaxUnshifts == 2

\* Pushes into each engine before sdft_init_combine is tried.
MaxPrePushes == 1

\* Accepted samples of a stream into a standalone engine that is unshifted at
\* any write index (the history counter pushes saturates at 2 * W + 1, so
\* this bounds the streams of window size 4 only).
MaxStream == 5

----------------------------------------------------------------------------
\* std::complex<Float>, exact

my_complex_zero == <<0, 0>>

my_complex_add(a, b) == <<a[1] + b[1], a[2] + b[2]>>

my_complex_sub(a, b) == <<a[1] - b[1], a[2] - b[2]>>

my_complex_mult(a, b) == <<a[1] * b[1] - a[2] * b[2], a[1] * b[2] + a[2] * b[1]>>

real(c) == c[1]

imag(c) == c[2]

\* exp(i * quarter * pi / 2): the fourth roots of unity.
cexp_quarter(quarter) ==
    CASE quarter % 4 = 0 -> <<1, 0>>
      [] quarter % 4 = 1 -> <<0, 1>>
      [] quarter % 4 = 2 -> <<-1, 0>>
      [] OTHER -> <<0, -1>>

\* exp(cplx(0, double_pi * i / number_of_samples)), the phase offset of bin i.
phase_offset_mirrored(i, number_of_samples) ==
    cexp_quarter(4 - (((4 * i) \div number_of_samples) % 4))

phase_offset(i, number_of_samples) ==
    cexp_quarter((4 * i) \div number_of_samples)

ZeroBuffer(n) == [i \in 1..n |-> my_complex_zero]

Min(a, b) == IF a < b THEN a ELSE b

----------------------------------------------------------------------------
\* Impl<Float>.  The field pushes is history: the pushes the engine accepted
\* since its construction or its last clear(), counted up to 2 * W + 1.

\* Impl<Float>::Impl: takes the caller's buffers as they are, index 0.
Impl(precision, signal, spectrum, number_of_samples, signal_traits) ==
    [precision |-> precision,
     _signal |-> signal,
     _spectrum |-> spectrum,
     _phase_offsets |-> [i \in 1..number_of_samples |->
                            phase_offset(i - 1, number_of_samples)],
     _signal_index |-> 0,
     _number_of_samples |-> number_of_samples,
     _signal_traits |-> signal_traits,
     pushes |-> 0]

matches_signal_trait_any(signal_traits, c) == TRUE

\* Impl<Float>::matches_signal_trait
matches_signal_trait(signal_traits, c) ==
    \/ signal_traits = SDFT_REAL_AND_IMAG
    \/ (signal_traits = SDFT_REAL_ONLY /\ imag(c) = 0)
    \/ (signal_traits = SDFT_IMAG_ONLY /\ real(c) = 0)

\* A validation that checks the window's elements only.
Impl_validate_any_length(e) ==
    IF \E i \in 1..e._number_of_samples :
            ~matches_signal_trait(e._signal_traits, e._signal[i])
    THEN SDFT_SIGNAL_TRAIT_VIOLATION
    ELSE SDFT_NO_ERROR

\* Impl<Float>::validate
Impl_validate(e) ==
    IF e._number_of_samples < 1
    THEN SDFT_WINDOW_TOO_SHORT
    ELSE IF \E i \in 1..e._number_of_samples :
                ~matches_signal_trait(e._signal_traits, e._signal[i])
    THEN SDFT_SIGNAL_TRAIT_VIOLATION
    ELSE SDFT_NO_ERROR

\* A bin count that takes no account of the trait.
n_bins_of_full(number_of_samples, signal_traits) == number_of_samples

\* n_bins of push_next_sample
n_bins_of(number_of_samples, signal_traits) ==
    IF signal_traits = SDFT_REAL_AND_IMAG
    THEN number_of_samples
    ELSE number_of_samples \div 2

\* Impl<Float>::clear
Impl_clear(e) ==
    [e EXCEPT !._signal = [i \in 1..e._number_of_samples |-> my_complex_zero],
              !._spectrum = [i \in 1..Len(e._spectrum) |->
                                IF i <= e._number_of_samples
                                THEN my_complex_zero ELSE e._spectrum[i]],
              !._signal_index = 0,
              !.pushes = 0]

\* push_next_sample without the check of the sample against the trait.
Impl_push_next_sample_unchecked(e, ns) ==
    LET delta == my_complex_sub(ns, e._signal[e._signal_index + 1])
        n_bins == n_bins_of(e._number_of_samples, e._signal_traits)
    IN [impl |-> [e EXCEPT
                    !._signal[e._signal_index + 1] = my_complex_add(@, delta),
                    !._spectrum = [i \in 1..Len(e._spectrum) |->
                        IF i <= n_bins
                        THEN my_complex_mult(
                                my_complex_add(e._spectrum[i], delta),
                                e._phase_offsets[i])
                        ELSE e._spectrum[i]],
                    !._signal_index = (@ + 1) % e._number_of_samples,
                    !.pushes = Min(@ + 1, 2 * e._number_of_samples + 1)],
        err |-> SDFT_NO_ERROR]

\* push_next_sample that leaves _signal_index where it is.
Impl_push_next_sample_stale_index(e, ns) ==
    IF ~matches_signal_trait(e._signal_traits, ns)
    THEN [impl |-> e, err |-> SDFT_SIGNAL_TRAIT_VIOLATION]
    ELSE LET delta == my_complex_sub(ns, e._signal[e._signal_index + 1])
             n_bins == n_bins_of(e._number_of_samples, e._signal_traits)
         IN [impl |-> [e EXCEPT
                        !._signal[e._signal_index + 1] = my_complex_add(@, delta),
                        !._spectrum = [i \in 1..Len(e._spectrum) |->
                            IF i <= n_bins
                            THEN my_complex_mult(
                                    my_complex_add(e._spectrum[i], delta),
                                    e._phase_offsets[i])
                            ELSE e._spectrum[i]],
                        !.pushes = Min(@ + 1, 2 * e._number_of_samples + 1)],
             err |-> SDFT_NO_ERROR]

\* Impl<Float>::push_next_sample: the new state and the error code.
Impl_push_next_sample(e, ns) ==
    IF ~matches_signal_trait(e._signal_traits, ns)
    THEN [impl |-> e, err |-> SDFT_SIGNAL_TRAIT_VIOLATION]
    ELSE LET delta == my_complex_sub(ns, e._signal[e._signal_index + 1])
             n_samples == e._number_of_samples
             n_bins == n_bins_of(e._number_of_samples, e._signal_traits)
             spectrum == [i \in 1..Len(e._spectrum) |->
                            IF i <= n_bins
                            THEN my_complex_mult(
                                    my_complex_add(e._spectrum[i], delta),
                                    e._phase_offsets[i])
                            ELSE e._spectrum[i]]
             signal == [e._signal EXCEPT ![e._signal_index + 1] =
                                            my_complex_add(@, delta)]
             index == IF e._signal_index + 1 = n_samples
                      THEN 0 ELSE e._signal_index + 1
         IN [impl |-> [e EXCEPT !._signal = signal,
                                !._spectrum = spectrum,
                                !._signal_index = index,
                                !.pushes = Min(@ + 1, 2 * n_samples + 1)],
             err |-> SDFT_NO_ERROR]

\* The loop of unshift_and_get_signal: n - 1 steps along the cycle from 0.
RECURSIVE unshift_cycle(_, _, _, _, _)
unshift_cycle(signal, cur, ofs, n, i) ==
    IF i >= n - 1
    THEN [signal |-> signal, cur |-> cur]
    ELSE LET next == (cur + ofs) % n
         IN unshift_cycle([signal EXCEPT ![cur + 1] = signal[next + 1]],
                          next, ofs, n, i + 1)

\* The rotation without the rewind of _signal_index (as impl_unshift_signal of
\* templated_functions.h leaves it).
Impl_unshift_and_get_signal_no_rewind(e) ==
    IF e._signal_index = 0
    THEN e
    ELSE LET r == unshift_cycle(e._signal, 0, e._signal_index,
                                e._number_of_samples, 0)
         IN [e EXCEPT !._signal = [r.signal EXCEPT ![r.cur + 1] = e._signal[1]]]

\* Impl<Float>::unshift_and_get_signal: the new state; it returns _signal.
Impl_unshift_and_get_signal(e) ==
    IF e._signal_index = 0
    THEN e
    ELSE LET n == e._number_of_samples
             ofs == e._signal_index
             first == e._signal[1]
             r == unshift_cycle(e._signal, 0, ofs, n, 0)
         IN [e EXCEPT !._signal = [r.signal EXCEPT ![r.cur + 1] = first],
                      !._signal_index = 0]

\* The assertion at the start of push_next_sample.
push_assertion(e) ==
    e._signal_index >= 0 /\ e._signal_index < e._number_of_samples

\* The assertions of unshift_and_get_signal, which it reaches when
\* _signal_index is not 0: before the loop, and after it on the last cur.
unshift_assertions(e) ==
    e._signal_index # 0 =>
        /\ e._number_of_samples > e._signal_index
        /\ (unshift_cycle(e._signal, 0, e._signal_index,
                          e._number_of_samples, 0).cur
                + e._signal_index) % e._number_of_samples = 0

\* Impl<Float>::get_spectrum
Impl_get_spectrum(e) == e._spectrum

----------------------------------------------------------------------------
\* The sdft_State objects of a run: a heap h with the Impl objects fst and snd
\* and the Combined objects combined and nested.  A pointer is a field name.

ImplNames == {"fst", "snd"}

CombinedNames == {"combined", "nested"}

\* A sdft_State buffer sdft_init_combine has not constructed a Combined in.
NoCombined ==
    [built |-> FALSE, _first |-> "fst", _second |-> "snd",
     _number_of_samples |-> 0, _clear_counter |-> 0]

\* An engine a specification does not use.
NoImpl == Impl(SDFT_DOUBLE, <<>>, <<>>, 0, SDFT_REAL_AND_IMAG)

NoBuffer == <<>>

\* A constructor that takes second as it is.
Combined_keeping_second(h, buffer, first, second) ==
    [h EXCEPT ![buffer] = [built |-> TRUE, _first |-> first, _second |-> second,
                           _number_of_samples |-> h[first]._number_of_samples,
                           _clear_counter |-> 0]]

\* Combined<Float>::Combined, constructed in *buffer: resets second.
Combined(h, buffer, first, second) ==
    [h EXCEPT ![buffer] = [built |-> TRUE, _first |-> first, _second |-> second,
                           _number_of_samples |-> h[first]._number_of_samples,
                           _clear_counter |-> 0],
              ![second] = Impl_clear(h[second])]

\* Combined<Float>::validate
Combined_validate(h, c) == SDFT_NO_ERROR

Impl_combine_with_any_traits(h, self, other, buffer) ==
    IF /\ other \in ImplNames
       /\ h[other].precision = h[self].precision
       /\ h[other]._number_of_samples = h[self]._number_of_samples
    THEN [heap |-> Combined(h, buffer, self, other), err |-> SDFT_NO_ERROR]
    ELSE [heap |-> h, err |-> SDFT_NOT_COMBINABLE]

\* Impl<Float>::combine_with.  dynamic_cast<Impl<Float> *>(other) is not null
\* iff other is an Impl of the same Float, i.e. of the same precision.
Impl_combine_with(h, self, other, buffer) ==
    LET o_not_null == other \in ImplNames /\ h[other].precision = h[self].precision
    IN IF /\ o_not_null
          /\ h[other]._number_of_samples = h[self]._number_of_samples
          /\ h[other]._signal_traits = h[self]._signal_traits
       THEN [heap |-> Combined(h, buffer, self, other), err |-> SDFT_NO_ERROR]
       ELSE [heap |-> h, err |-> SDFT_NOT_COMBINABLE]

\* A Combined that hands the request on to its first engine.
Combined_combine_with_delegating(h, self, other, buffer) ==
    Impl_combine_with(h, h[self]._first, other, buffer)

\* Combined<Float>::combine_with
Combined_combine_with(h, self, other, buffer) ==
    [heap |-> h, err |-> SDFT_NOT_COMBINABLE]

\* A selection that never leaves the first engine.
Combined_selected_first(h, c) == h[c]._first

\* The engine whose buffers get_spectrum and unshift_and_get_signal hand out.
Combined_selected(h, c) ==
    IF h[c]._clear_counter <= h[c]._number_of_samples
    THEN h[c]._first
    ELSE h[c]._second

\* Combined<Float>::get_spectrum
Combined_get_spectrum(h, c) == Impl_get_spectrum(h[Combined_selected(h, c)])

\* Combined<Float>::unshift_and_get_signal: the new heap and the buffer.
Combined_unshift_and_get_signal(h, c) ==
    LET e == Combined_selected(h, c)
        u == Impl_unshift_and_get_signal(h[e])
    IN [heap |-> [h EXCEPT ![e] = u], ret |-> u._signal]

\* The forwarding part of Combined<Float>::push_next_sample, after the resets.
Combined_forward(h, c, ns) ==
    LET first == h[c]._first
        second == h[c]._second
        r1 == Impl_push_next_sample(h[first], ns)
        h1 == [h EXCEPT ![first] = r1.impl]
        r2 == Impl_push_next_sample(h1[second], ns)
        h2 == [h1 EXCEPT ![second] = r2.impl]
    IN IF r1.err # SDFT_NO_ERROR THEN [heap |-> h1, err |-> r1.err]
       ELSE IF r2.err # SDFT_NO_ERROR THEN [heap |-> h2, err |-> r2.err]
       ELSE [heap |-> [h2 EXCEPT ![c]._clear_counter = @ + 1],
             err |-> SDFT_NO_ERROR]

\* push_next_sample that resets the first engine one push early.
Combined_push_next_sample_early_first_clear(h, c, ns) ==
    IF h[c]._clear_counter + 1 = h[c]._number_of_samples
    THEN Combined_forward([h EXCEPT ![h[c]._first] = Impl_clear(@)], c, ns)
    ELSE IF h[c]._clear_counter = 2 * h[c]._number_of_samples
    THEN Combined_forward([h EXCEPT ![h[c]._second] = Impl_clear(@),
                                    ![c]._clear_counter = 0], c, ns)
    ELSE Combined_forward(h, c, ns)

\* push_next_sample that never resets the first engine.
Combined_push_next_sample_no_first_clear(h, c, ns) ==
    IF h[c]._clear_counter = 2 * h[c]._number_of_samples
    THEN Combined_forward([h EXCEPT ![h[c]._second] = Impl_clear(@),
                                    ![c]._clear_counter = 0], c, ns)
    ELSE Combined_forward(h, c, ns)

\* push_next_sample that rewinds the counter without resetting the second engine.
Combined_push_next_sample_no_second_clear(h, c, ns) ==
    IF h[c]._clear_counter = h[c]._number_of_samples
    THEN Combined_forward([h EXCEPT ![h[c]._first] = Impl_clear(@)], c, ns)
    ELSE IF h[c]._clear_counter = 2 * h[c]._number_of_samples
    THEN Combined_forward([h EXCEPT ![c]._clear_counter = 0], c, ns)
    ELSE Combined_forward(h, c, ns)

\* Combined<Float>::push_next_sample: the new heap and the error code.
Combined_push_next_sample(h, c, ns) ==
    LET cleared ==
            IF h[c]._clear_counter = h[c]._number_of_samples
            THEN [h EXCEPT ![h[c]._first] = Impl_clear(@)]
            ELSE IF h[c]._clear_counter = 2 * h[c]._number_of_samples
            THEN [h EXCEPT ![h[c]._second] = Impl_clear(@),
                           ![c]._clear_counter = 0]
            ELSE h
    IN Combined_forward(cleared, c, ns)

----------------------------------------------------------------------------
\* The exported functions: a virtual call on the sdft_State *s.

\* new(s) Impl<Float>(...) for the Float of precision, then s->validate()
sdft_init_from_buffers(h, s, precision, signal, spectrum, n, signal_traits) ==
    LET e == Impl(precision, signal, spectrum, n, signal_traits)
    IN [heap |-> [h EXCEPT ![s] = e], err |-> Impl_validate(e)]

sdft_push_next_sample(h, s, ns) ==
    IF s \in ImplNames
    THEN LET r == Impl_push_next_sample(h[s], ns)
         IN [heap |-> [h EXCEPT ![s] = r.impl], err |-> r.err]
    ELSE Combined_push_next_sample(h, s, ns)

sdft_get_spectrum(h, s) ==
    IF s \in ImplNames
    THEN Impl_get_spectrum(h[s])
    ELSE Combined_get_spectrum(h, s)

sdft_unshift_and_get_signal(h, s) ==
    IF s \in ImplNames
    THEN LET u == Impl_unshift_and_get_signal(h[s])
         IN [heap |-> [h EXCEPT ![s] = u], ret |-> u._signal]
    ELSE Combined_unshift_and_get_signal(h, s)

sdft_init_combine(h, state, first, second) ==
    LET r == IF first \in ImplNames
             THEN Impl_combine_with(h, first, second, state)
             ELSE Combined_combine_with(h, first, second, state)
    IN IF r.err # SDFT_NO_ERROR
       THEN r
       ELSE [heap |-> r.heap, err |-> Combined_validate(r.heap, state)]

----------------------------------------------------------------------------
\* The reference transform of the tests: dft() of test/main.c.

RECURSIVE dft_sum(_, _, _, _)
dft_sum(signal, k, N, j) ==
    IF j >= N
    THEN my_complex_zero
    ELSE my_complex_add(
            my_complex_mult(signal[j + 1],
                            cexp_quarter(4 - ((4 * ((k * j) % N)) \div N))),
            dft_sum(signal, k, N, j + 1))

dft(signal, N) == [k \in 1..N |-> dft_sum(signal, k - 1, N, 0)]

\* The window read in temporal order, oldest first, starting at _signal_index.
TemporalWindow(e) ==
    [j \in 1..e._number_of_samples |->
        e._signal[((e._signal_index + j - 1) % e._number_of_samples) + 1]]

\* The history after one more accepted sample.
Slide(w, ns) == IF Len(w) = 0 THEN w ELSE Append(Tail(w), ns)

----------------------------------------------------------------------------
\* The heap of the current state, and the next state's.

Heap == [fst |-> fst, snd |-> snd, combined |-> combined, nested |-> nested]

SetHeap(h) ==
    /\ fst' = h.fst
    /\ snd' = h.snd
    /\ combined' = h.combined
    /\ nested' = h.nested

\* The history after a push of ns that returned e.
Record(e, ns) ==
    /\ pushed' = IF e = SDFT_NO_ERROR THEN Slide(pushed, ns) ELSE pushed
    /\ npushed' = IF e = SDFT_NO_ERROR
                  THEN Min(npushed + 1, Len(pushed)) ELSE npushed

\* sdft_push_next_sample(s, &ns)
Push(s, ns) ==
    LET r == sdft_push_next_sample(Heap, s, ns)
    IN /\ SetHeap(r.heap)
       /\ err' = r.err
       /\ op' = "sdft_push_next_sample"
       /\ next_sample' = ns
       /\ ret' = NoBuffer
       /\ Record(r.err, ns)

\* sdft_unshift_and_get_signal(s)
Unshift(s) ==
    LET r == sdft_unshift_and_get_signal(Heap, s)
    IN /\ SetHeap(r.heap)
       /\ ret' = r.ret
       /\ op' = "sdft_unshift_and_get_signal"
       /\ err' = SDFT_NO_ERROR
       /\ UNCHANGED <<next_sample, pushed, npushed>>

\* sdft_get_spectrum(s)
GetSpectrum(s) ==
    /\ ret' = sdft_get_spectrum(Heap, s)
    /\ op' = "sdft_get_spectrum"
    /\ err' = SDFT_NO_ERROR
    /\ UNCHANGED <<fst, snd, combined, nested, next_sample, pushed, npushed>>

----------------------------------------------------------------------------
\* SpecEngine: a single Window Engine over zeroed buffers, as built by
\* compare_sdft_to_dft (steps 1 and 2).

InitEngine ==
    /\ \E N \in WindowSizes, traits \in sdft_SignalTraits :
          fst = Impl(SDFT_DOUBLE, ZeroBuffer(N), ZeroBuffer(N), N, traits)
    /\ snd = NoImpl
    /\ combined = NoCombined
    /\ nested = NoCombined
    /\ ref = NoImpl
    /\ op = "sdft_init_from_buffers"
    /\ err = SDFT_NO_ERROR
    /\ next_sample = my_complex_zero
    /\ ret = NoBuffer
    /\ ret_ref = NoBuffer
    /\ pushed = ZeroBuffer(fst._number_of_samples)
    /\ npushed = 0
    /\ nunshift = 0
    /\ initial = [signal |-> fst._signal, spectrum |-> fst._spectrum]

EnginePush(ns) ==
    /\ Push("fst", ns)
    /\ UNCHANGED <<ref, ret_ref, nunshift, initial>>

EngineUnshift ==
    /\ nunshift < MaxUnshifts
    /\ Unshift("fst")
    /\ nunshift' = nunshift + 1
    /\ UNCHANGED <<ref, ret_ref, initial>>

EngineGetSpectrum ==
    /\ GetSpectrum("fst")
    /\ UNCHANGED <<ref, ret_ref, nunshift, initial>>

NextEngine ==
    \/ \E ns \in Samples : EnginePush(ns)
    \/ EngineUnshift
    \/ EngineGetSpectrum

SpecEngine == InitEngine /\ [][NextEngine]_vars

----------------------------------------------------------------------------
\* Properties of a single Window Engine (SpecEngine)

\* The bins push_next_sample maintains.
RetainedBins(e) == 1..n_bins_of(e._number_of_samples, e._signal_traits)

\* A sample that contradicts the declared trait.
ViolatesTrait(signal_traits, c) ==
    \/ (signal_traits = SDFT_REAL_ONLY /\ c[2] # 0)
    \/ (signal_traits = SDFT_IMAG_ONLY /\ c[1] # 0)

\* C1: after N >= W accepted pushes and no earlier unshift, the buffer that
\* unshift_and_get_signal returns holds the last W pushed samples, oldest
\* first, whatever the write index N mod W is.
C1_RoundTripOrdering ==
    (op = "sdft_unshift_and_get_signal" /\ nunshift = 1
        /\ npushed = fst._number_of_samples)
    => ret = pushed

\* C3: from an all-zero window and spectrum, after any number of accepted
\* pushes (and no unshift) every retained bin equals the naive DFT of the
\* current window read oldest first.
C3_SpectralEquivalence ==
    nunshift = 0 =>
        \A k \in RetainedBins(fst) :
            fst._spectrum[k] = dft(TemporalWindow(fst), fst._number_of_samples)[k]

\* C3 witness: a full window of size 4 whose bin 1 is not zero.
C3_Witness ==
    /\ nunshift = 0
    /\ fst._number_of_samples = 4
    /\ npushed = 4
    /\ fst._signal_index = 1
    /\ fst._spectrum[2] # my_complex_zero
    /\ fst._spectrum[2] = dft(pushed, 4)[2]

\* C5: a push whose sample violates the trait returns
\* SDFT_SIGNAL_TRAIT_VIOLATION and leaves window, spectrum, phase offsets and
\* write index as they were; under SDFT_REAL_AND_IMAG no push is rejected.
C5_RejectedPushMutatesNothing ==
    [][op' = "sdft_push_next_sample" =>
        /\ ViolatesTrait(fst._signal_traits, next_sample') =>
                (err' = SDFT_SIGNAL_TRAIT_VIOLATION /\ fst' = fst)
        /\ ~ViolatesTrait(fst._signal_traits, next_sample') =>
                err' = SDFT_NO_ERROR
      ]_vars

\* C5 witness: a rejected push into an engine that holds samples.
C5_Witness ==
    /\ op = "sdft_push_next_sample"
    /\ err = SDFT_SIGNAL_TRAIT_VIOLATION
    /\ ViolatesTrait(fst._signal_traits, next_sample)
    /\ fst._signal_index # 0
    /\ fst._spectrum # ZeroBuffer(fst._number_of_samples)

\* C12: for window_size 1 over zeroed buffers, under each of the three
\* traits, validation succeeds and after every accepted push the sole window
\* sample and spectrum bin 0 both equal the sample just pushed.
C12_MinimalWindow ==
    fst._number_of_samples = 1 =>
        /\ Impl_validate(fst) = SDFT_NO_ERROR
        /\ (op = "sdft_push_next_sample" /\ err = SDFT_NO_ERROR) =>
                /\ fst._signal[1] = next_sample
                /\ Impl_get_spectrum(fst)[1] = next_sample

\* C16: under SDFT_REAL_ONLY or SDFT_IMAG_ONLY, after an accepted push, every
\* bin k of 0 .. W - 1 that push_next_sample does not maintain (it maintains
\* bins 0 .. floor(W/2) - 1) is the mirror of a maintained one:
\* (W - k) mod W is a maintained index.
C16_HalfSpectrumSufficient ==
    (op = "sdft_push_next_sample" /\ err = SDFT_NO_ERROR
        /\ fst._signal_traits # SDFT_REAL_AND_IMAG) =>
        LET W == fst._number_of_samples
            maintained == {i - 1 : i \in RetainedBins(fst)}
        IN \A k \in 0..(W - 1) :
              k \notin maintained => ((W - k) % W) \in maintained

----------------------------------------------------------------------------
\* SpecCombined: a Combiner over two engines with zeroed buffers, as built by
\* compare_sdft_to_dft_combined (steps 1 and 2), then used through the
\* exported functions in any order.

\* The heap after sdft_init_from_buffers(fst), (snd) and sdft_init_combine.
CombinedOverZeros(N, traits) ==
    sdft_init_combine(
        [fst |-> Impl(SDFT_DOUBLE, ZeroBuffer(N), ZeroBuffer(N), N, traits),
         snd |-> Impl(SDFT_DOUBLE, ZeroBuffer(N), ZeroBuffer(N), N, traits),
         combined |-> NoCombined,
         nested |-> NoCombined],
        "combined", "fst", "snd")

InitCombined ==
    /\ \E N \in WindowSizes, traits \in sdft_SignalTraits :
          LET r == CombinedOverZeros(N, traits)
          IN /\ fst = r.heap.fst
             /\ snd = r.heap.snd
             /\ combined = r.heap.combined
             /\ nested = r.heap.nested
             /\ err = r.err
    /\ ref = NoImpl
    /\ op = "sdft_init_combine"
    /\ next_sample = my_complex_zero
    /\ ret = NoBuffer
    /\ ret_ref = NoBuffer
    /\ pushed = ZeroBuffer(combined._number_of_samples)
    /\ npushed = 0
    /\ nunshift = 0
    /\ initial = [signal |-> fst._signal, spectrum |-> fst._spectrum]

CombinedPush(ns) ==
    /\ Push("combined", ns)
    /\ UNCHANGED <<ref, ret_ref, nunshift, initial>>

CombinedUnshift ==
    /\ Unshift("combined")
    /\ UNCHANGED <<ref, ret_ref, nunshift, initial>>

CombinedGetSpectrum ==
    /\ GetSpectrum("combined")
    /\ UNCHANGED <<ref, ret_ref, nunshift, initial>>

\* sdft_init_combine(nested, first, second) with the Combiner as an operand
CombineCombined(first, second) ==
    LET r == sdft_init_combine(Heap, "nested", first, second)
    IN /\ SetHeap(r.heap)
       /\ err' = r.err
       /\ op' = "sdft_init_combine"
       /\ ret' = NoBuffer
       /\ UNCHANGED <<ref, ret_ref, next_sample, pushed, npushed, nunshift, initial>>

NextCombined ==
    \/ \E ns \in Samples : CombinedPush(ns)
    \/ CombinedUnshift
    \/ CombinedGetSpectrum
    \/ \E first, second \in {"fst", "snd", "combined"} :
          /\ "combined" \in {first, second}
          /\ CombineCombined(first, second)

SpecCombined == InitCombined /\ [][NextCombined]_vars

----------------------------------------------------------------------------
\* SpecTest: the loop of compare_sdft_to_dft_combined.  From the W-th push on
\* every push is preceded by sdft_unshift_and_get_signal (and, at times, by
\* sdft_get_spectrum).  The signals of the tests satisfy the trait.

TestUnshift ==
    /\ npushed = combined._number_of_samples
    /\ op \notin {"sdft_unshift_and_get_signal", "sdft_get_spectrum"}
    /\ Unshift("combined")
    /\ UNCHANGED <<ref, ret_ref, nunshift, initial>>

TestGetSpectrum ==
    /\ op = "sdft_unshift_and_get_signal"
    /\ GetSpectrum("combined")
    /\ UNCHANGED <<ref, ret_ref, nunshift, initial>>

TestPush(ns) ==
    /\ \/ npushed < combined._number_of_samples
       \/ op \in {"sdft_unshift_and_get_signal", "sdft_get_spectrum"}
    /\ matches_signal_trait(fst._signal_traits, ns)
    /\ Push("combined", ns)
    /\ UNCHANGED <<ref, ret_ref, nunshift, initial>>

NextTest ==
    \/ TestUnshift
    \/ TestGetSpectrum
    \/ \E ns \in Samples : TestPush(ns)

SpecTest == InitCombined /\ [][NextTest]_vars

----------------------------------------------------------------------------
\* SpecEquiv: a standalone engine ref and a Combiner built over the same
\* initial window and spectrum, fed the same accepted samples; after every
\* push the caller reads the spectrum and the window of both.

\* Windows a caller pre-fills: every element the same sample of the trait.
InitialWindows(N, traits) ==
    {[i \in 1..N |-> c] : c \in {x \in Samples : matches_signal_trait(traits, x)}}

\* Spectra a caller supplies with a window: its transform, or zeroes.
InitialSpectra(signal, N) == {dft(signal, N), ZeroBuffer(N)}

InitEquiv ==
    /\ \E N \in WindowSizes, traits \in sdft_SignalTraits :
        \E signal \in InitialWindows(N, traits) :
          \E spectrum \in InitialSpectra(signal, N) :
            LET r == sdft_init_combine(
                        [fst |-> Impl(SDFT_DOUBLE, signal, spectrum, N, traits),
                         snd |-> Impl(SDFT_DOUBLE, ZeroBuffer(N), ZeroBuffer(N),
                                      N, traits),
                         combined |-> NoCombined,
                         nested |-> NoCombined],
                        "combined", "fst", "snd")
            IN /\ fst = r.heap.fst
               /\ snd = r.heap.snd
               /\ combined = r.heap.combined
               /\ nested = r.heap.nested
               /\ err = r.err
               /\ ref = Impl(SDFT_DOUBLE, signal, spectrum, N, traits)
               /\ initial = [signal |-> signal, spectrum |-> spectrum]
    /\ op = "sdft_init_combine"
    /\ next_sample = my_complex_zero
    /\ ret = NoBuffer
    /\ ret_ref = NoBuffer
    /\ pushed = initial.signal
    /\ npushed = 0
    /\ nunshift = 0

EquivPush(ns) ==
    /\ op \in {"sdft_init_combine", "sdft_unshift_and_get_signal"}
    /\ matches_signal_trait(ref._signal_traits, ns)
    /\ Push("combined", ns)
    /\ ref' = Impl_push_next_sample(ref, ns).impl
    /\ ret_ref' = NoBuffer
    /\ UNCHANGED <<nunshift, initial>>

EquivGetSpectrum ==
    /\ op = "sdft_push_next_sample"
    /\ GetSpectrum("combined")
    /\ ret_ref' = Impl_get_spectrum(ref)
    /\ UNCHANGED <<ref, nunshift, initial>>

EquivUnshift ==
    /\ op = "sdft_get_spectrum"
    /\ Unshift("combined")
    /\ ref' = Impl_unshift_and_get_signal(ref)
    /\ ret_ref' = ref'._signal
    /\ UNCHANGED <<nunshift, initial>>

NextEquiv ==
    \/ \E ns \in Samples : EquivPush(ns)
    \/ EquivGetSpectrum
    \/ EquivUnshift

SpecEquiv == InitEquiv /\ [][NextEquiv]_vars

----------------------------------------------------------------------------
\* SpecCombine: two engines of any precision, window size and trait, each
\* pushed into a few times, then handed to sdft_init_combine in either order.

InitCombine ==
    /\ \E p1, p2 \in sdft_FloatPrecision, N1, N2 \in WindowSizes,
          t1, t2 \in sdft_SignalTraits :
            /\ fst = Impl(p1, ZeroBuffer(N1), ZeroBuffer(N1), N1, t1)
            /\ snd = Impl(p2, ZeroBuffer(N2), ZeroBuffer(N2), N2, t2)
    /\ combined = NoCombined
    /\ nested = NoCombined
    /\ ref = NoImpl
    /\ op = "sdft_init_from_buffers"
    /\ err = SDFT_NO_ERROR
    /\ next_sample = my_complex_zero
    /\ ret = NoBuffer
    /\ ret_ref = NoBuffer
    /\ pushed = NoBuffer
    /\ npushed = 0
    /\ nunshift = 0
    /\ initial = [signal |-> fst._signal, spectrum |-> fst._spectrum]

PrePush(s, ns) ==
    /\ ~combined.built
    /\ Heap[s].pushes < MaxPrePushes
    /\ Push(s, ns)
    /\ UNCHANGED <<ref, ret_ref, nunshift, initial>>

\* sdft_init_combine(combined, first, second)
Combine(first, second) ==
    /\ ~combined.built
    /\ LET r == sdft_init_combine(Heap, "combined", first, second)
       IN /\ SetHeap(r.heap)
          /\ err' = r.err
    /\ op' = "sdft_init_combine"
    /\ ret' = NoBuffer
    /\ UNCHANGED <<ref, ret_ref, next_sample, pushed, npushed, nunshift, initial>>

NextCombine ==
    \/ \E s \in ImplNames, ns \in Samples : PrePush(s, ns)
    \/ Combine("fst", "snd")
    \/ Combine("snd", "fst")

SpecCombine == InitCombine /\ [][NextCombine]_vars

----------------------------------------------------------------------------
\* SpecIdem: a standalone engine ref and a Combiner, both given the same
\* calls in any order: pushes of any sample, and sdft_unshift_and_get_signal
\* up to MaxUnshifts times in a row.

IdemPush(ns) ==
    /\ ref.pushes < MaxStream
    /\ Push("combined", ns)
    /\ ref' = Impl_push_next_sample(ref, ns).impl
    /\ ret_ref' = NoBuffer
    /\ nunshift' = 0
    /\ UNCHANGED initial

IdemUnshift ==
    /\ nunshift < MaxUnshifts
    /\ Unshift("combined")
    /\ ref' = Impl_unshift_and_get_signal(ref)
    /\ ret_ref' = ref'._signal
    /\ nunshift' = nunshift + 1
    /\ UNCHANGED initial

NextIdem ==
    \/ \E ns \in Samples : IdemPush(ns)
    \/ IdemUnshift

SpecIdem == InitEquiv /\ [][NextIdem]_vars

\* C13: a second sdft_unshift_and_get_signal right after a first one, on a
\* standalone engine and on a Combiner, returns the same buffer with the same
\* content and changes no state.
C13_UnshiftIdempotent ==
    [][(op = "sdft_unshift_and_get_signal" /\ op' = "sdft_unshift_and_get_signal")
        => /\ ret_ref' = ret_ref
           /\ ref' = ref
           /\ ret' = ret
           /\ Combined_selected(Heap', "combined") = Combined_selected(Heap, "combined")
           /\ fst' = fst /\ snd' = snd /\ combined' = combined]_vars

\* C13 witness: the second of two calls in a row after five pushes into
\* windows of size 4: the first call rotated the standalone engine and the
\* Combiner's second engine from write index 1.
C13_Witness ==
    /\ op = "sdft_unshift_and_get_signal"
    /\ nunshift = 2
    /\ ref._number_of_samples = 4
    /\ ref.pushes = 5
    /\ Combined_selected(Heap, "combined") = "snd"
    /\ snd.pushes = 5
    /\ ret = snd._signal
    /\ ret_ref = ref._signal
    /\ ret[1] # ret[4]
    /\ ret_ref[1] # ret_ref[4]

\* C19: in a standalone engine and in both inner engines of a Combiner, all
\* constructed without error, every one of the W window elements satisfies
\* the declared trait after any pushes (accepted or rejected), unshifts and
\* resets.
C19_TraitInvariant ==
    \A e \in {ref, fst, snd} :
        \A i \in 1..e._number_of_samples :
            ~ViolatesTrait(e._signal_traits, e._signal[i])

\* C19 witness: right after a rejected push, a pre-filled standalone window
\* of imaginary samples and a first inner engine that was reset and refilled.
C19_Witness ==
    /\ op = "sdft_push_next_sample"
    /\ err = SDFT_SIGNAL_TRAIT_VIOLATION
    /\ ViolatesTrait(ref._signal_traits, next_sample)
    /\ ref._signal_traits = SDFT_IMAG_ONLY
    /\ ref._number_of_samples = 2
    /\ initial.signal[1] # my_complex_zero
    /\ ref._signal[1] # ref._signal[2]
    /\ combined._clear_counter = 3
    /\ fst.pushes = 1
    /\ snd.pushes = 3
    /\ fst._signal[1] # my_complex_zero

\* C23: in a standalone engine and in both inner engines of a Combiner,
\* after any pushes, unshifts and resets, 0 <= write_index < W, so that the
\* assertions of push_next_sample and unshift_and_get_signal hold; the write
\* index is 0 right after every unshift, and a reset leaves it 0.
C23_WriteIndex ==
    /\ \A e \in {ref, fst, snd} :
          /\ 0 <= e._signal_index
          /\ e._signal_index < e._number_of_samples
          /\ push_assertion(e)
          /\ unshift_assertions(e)
          /\ Impl_clear(e)._signal_index = 0
    /\ op = "sdft_unshift_and_get_signal" =>
          /\ ref._signal_index = 0
          /\ Heap[Combined_selected(Heap, "combined")]._signal_index = 0

\* C23 witness: an unshift after three pushes into windows of size 4, which
\* took the standalone engine and the first engine from write index 3 to 0.
C23_Witness ==
    /\ op = "sdft_unshift_and_get_signal"
    /\ nunshift = 1
    /\ ref._number_of_samples = 4
    /\ ref.pushes = 3
    /\ fst.pushes = 3
    /\ combined._clear_counter = 3
    /\ ref._signal_index = 0
    /\ fst._signal_index = 0
    /\ snd._signal_index = 3
    /\ ret_ref[4] # my_complex_zero
    /\ ret[4] # my_complex_zero

\* C25: an accepted push into a standalone engine changes, of the window,
\* only window[write_index], and leaves spectrum[k] alone for k >= W under
\* SDFT_REAL_AND_IMAG and for k >= floor(W/2) under a restricted trait; and no
\* push, unshift or reset changes the phase offsets, the window size, the
\* trait or the precision of any engine.
C25_PushFrame ==
    [][/\ (op' = "sdft_push_next_sample" /\ err' = SDFT_NO_ERROR) =>
            LET W == ref._number_of_samples
                retained == IF ref._signal_traits = SDFT_REAL_AND_IMAG
                            THEN W ELSE W \div 2
            IN /\ \A i \in 1..W :
                    i # ref._signal_index + 1 => ref'._signal[i] = ref._signal[i]
               /\ ref'._signal[ref._signal_index + 1] = next_sample'
               /\ Len(ref'._spectrum) = Len(ref._spectrum)
               /\ \A k \in 1..Len(ref._spectrum) :
                    k > retained => ref'._spectrum[k] = ref._spectrum[k]
       /\ ref'._phase_offsets = ref._phase_offsets
       /\ ref'._number_of_samples = ref._number_of_samples
       /\ ref'._signal_traits = ref._signal_traits
       /\ ref'.precision = ref.precision
       /\ \A s \in ImplNames :
            /\ Heap'[s]._phase_offsets = Heap[s]._phase_offsets
            /\ Heap'[s]._number_of_samples = Heap[s]._number_of_samples
            /\ Heap'[s]._signal_traits = Heap[s]._signal_traits
            /\ Heap'[s].precision = Heap[s].precision
      ]_vars

\* C25 witness: an accepted push at write index 2 into a window of size 4 of
\* real samples; bins 0 and 1 are maintained, bins 2 and 3 are as they were.
C25_Witness ==
    /\ op = "sdft_push_next_sample"
    /\ err = SDFT_NO_ERROR
    /\ ref._signal_traits = SDFT_REAL_ONLY
    /\ ref._number_of_samples = 4
    /\ ref._signal_index = 3
    /\ ref._signal[3] = next_sample
    /\ next_sample # my_complex_zero
    /\ ref._spectrum[2] # my_complex_zero
    /\ ref._spectrum[3] = initial.spectrum[3]
    /\ ref._spectrum[4] = initial.spectrum[4]

----------------------------------------------------------------------------
\* SpecInterleave: two engines over zeroed buffers given the same samples;
\* fst is unshifted between pushes at any write index, ref never is.

InitInterleave ==
    /\ \E N \in WindowSizes, traits \in sdft_SignalTraits :
          /\ fst = Impl(SDFT_DOUBLE, ZeroBuffer(N), ZeroBuffer(N), N, traits)
          /\ ref = Impl(SDFT_DOUBLE, ZeroBuffer(N), ZeroBuffer(N), N, traits)
    /\ snd = NoImpl
    /\ combined = NoCombined
    /\ nested = NoCombined
    /\ op = "sdft_init_from_buffers"
    /\ err = Impl_validate(fst)
    /\ next_sample = my_complex_zero
    /\ ret = NoBuffer
    /\ ret_ref = NoBuffer
    /\ pushed = ZeroBuffer(fst._number_of_samples)
    /\ npushed = 0
    /\ nunshift = 0
    /\ initial = [signal |-> fst._signal, spectrum |-> fst._spectrum]

InterleavePush(ns) ==
    /\ Push("fst", ns)
    /\ ref' = Impl_push_next_sample(ref, ns).impl
    /\ ret_ref' = NoBuffer
    /\ UNCHANGED <<nunshift, initial>>

\* sdft_unshift_and_get_signal(fst); ret_ref is what the same call would
\* return for ref, were the stream to end here.
InterleaveUnshift ==
    /\ nunshift < MaxUnshifts
    /\ Unshift("fst")
    /\ ret_ref' = Impl_unshift_and_get_signal(ref)._signal
    /\ nunshift' = nunshift + 1
    /\ UNCHANGED <<ref, initial>>

NextInterleave ==
    \/ \E ns \in Samples : InterleavePush(ns)
    \/ InterleaveUnshift

SpecInterleave == InitInterleave /\ [][NextInterleave]_vars

\* C14: whatever unshift calls are interleaved with the pushes, the spectrum
\* after each push and the window a final unshift returns are those of the
\* same pushes without any intermediate unshift.
C14_UnshiftTransparent ==
    /\ op = "sdft_push_next_sample" =>
          \A k \in RetainedBins(fst) : fst._spectrum[k] = ref._spectrum[k]
    /\ op = "sdft_unshift_and_get_signal" => ret = ret_ref

----------------------------------------------------------------------------
\* SpecInit: sdft_init_from_buffers on a state buffer, with any precision,
\* trait and window size (0 included) and any window content; the caller may
\* construct in the same buffer again.

\* size_t window sizes a caller passes: 0 and the sizes of the model.
InitWindowSizes == {0} \cup WindowSizes

\* The window buffers a caller passes with window size N: N elements, and one
\* element when N is 0 (a buffer holds at least N elements).
CallerWindows(N) == [1..(IF N = 0 THEN 1 ELSE N) -> Samples]

InitUnconstructed ==
    /\ fst = NoImpl
    /\ snd = NoImpl
    /\ combined = NoCombined
    /\ nested = NoCombined
    /\ ref = NoImpl
    /\ op = "sdft_size_of_state"
    /\ err = SDFT_NO_ERROR
    /\ next_sample = my_complex_zero
    /\ ret = NoBuffer
    /\ ret_ref = NoBuffer
    /\ pushed = NoBuffer
    /\ npushed = 0
    /\ nunshift = 0
    /\ initial = [signal |-> NoBuffer, spectrum |-> NoBuffer]

InitFromBuffers(precision, signal, spectrum, N, traits) ==
    LET r == sdft_init_from_buffers(Heap, "fst", precision, signal, spectrum,
                                    N, traits)
    IN /\ SetHeap(r.heap)
       /\ err' = r.err
       /\ op' = "sdft_init_from_buffers"
       /\ initial' = [signal |-> signal, spectrum |-> spectrum]
       /\ ret' = NoBuffer
       /\ UNCHANGED <<ref, ret_ref, next_sample, pushed, npushed, nunshift>>

NextInit ==
    \E precision \in sdft_FloatPrecision, N \in InitWindowSizes,
       traits \in sdft_SignalTraits :
        \E signal \in CallerWindows(N) :
            InitFromBuffers(precision, signal, ZeroBuffer(N), N, traits)

SpecInit == InitUnconstructed /\ [][NextInit]_vars

\* C15: sdft_init_from_buffers returns SDFT_WINDOW_TOO_SHORT iff the window
\* size is less than 1 (whatever the window holds); otherwise
\* SDFT_SIGNAL_TRAIT_VIOLATION iff one of the window_size initial elements
\* violates the trait; otherwise SDFT_NO_ERROR.
C15_ConstructionResult ==
    op = "sdft_init_from_buffers" =>
        LET N == fst._number_of_samples
            violated == \E i \in 1..N :
                            ViolatesTrait(fst._signal_traits, initial.signal[i])
        IN /\ (err = SDFT_WINDOW_TOO_SHORT) <=> (N < 1)
           /\ N >= 1 => ((err = SDFT_SIGNAL_TRAIT_VIOLATION) <=> violated)
           /\ (N >= 1 /\ ~violated) => err = SDFT_NO_ERROR

\* C15 witness: window size 0 with a buffer whose element violates the
\* trait: the window-size check comes first.
C15_Witness ==
    /\ op = "sdft_init_from_buffers"
    /\ fst._number_of_samples = 0
    /\ ViolatesTrait(fst._signal_traits, initial.signal[1])
    /\ err = SDFT_WINDOW_TOO_SHORT

----------------------------------------------------------------------------
\* SpecSized: two engines whose spectrum buffers hold just the bins their
\* trait asks for (W, or W / 2 under a restricted trait), pushed into,
\* combined, and used through the Combiner.  _spectrum[k] for k past the
\* buffer is the caller's memory that follows it, which holds Canary.

Canary == <<1, 1>>

\* A zeroed spectrum buffer of n_bins elements and the memory after it, up to
\* element number_of_samples.
SizedSpectrum(number_of_samples, signal_traits) ==
    [i \in 1..number_of_samples |->
        IF i <= n_bins_of(number_of_samples, signal_traits)
        THEN my_complex_zero ELSE Canary]

InitSized ==
    /\ \E N \in WindowSizes, traits \in sdft_SignalTraits :
          /\ fst = Impl(SDFT_DOUBLE, ZeroBuffer(N), SizedSpectrum(N, traits),
                        N, traits)
          /\ snd = Impl(SDFT_DOUBLE, ZeroBuffer(N), SizedSpectrum(N, traits),
                        N, traits)
    /\ combined = NoCombined
    /\ nested = NoCombined
    /\ ref = NoImpl
    /\ op = "sdft_init_from_buffers"
    /\ err = Impl_validate(fst)
    /\ next_sample = my_complex_zero
    /\ ret = NoBuffer
    /\ ret_ref = NoBuffer
    /\ pushed = ZeroBuffer(fst._number_of_samples)
    /\ npushed = 0
    /\ nunshift = 0
    /\ initial = [signal |-> fst._signal, spectrum |-> fst._spectrum]

SizedPush(ns) ==
    /\ combined.built
    /\ CombinedPush(ns)

SizedUnshift ==
    /\ combined.built
    /\ CombinedUnshift

SizedGetSpectrum ==
    /\ combined.built
    /\ CombinedGetSpectrum

NextSized ==
    \/ \E s \in ImplNames, ns \in Samples : PrePush(s, ns)
    \/ Combine("fst", "snd")
    \/ \E ns \in Samples : SizedPush(ns)
    \/ SizedUnshift
    \/ SizedGetSpectrum

SpecSized == InitSized /\ [][NextSized]_vars

\* C17: with spectrum buffers of W elements under SDFT_REAL_AND_IMAG and of
\* W / 2 elements under a restricted trait, no operation touches the spectrum
\* past the buffer: the memory after it stays as the caller left it.
C17_SpectrumWithinBounds ==
    \A s \in ImplNames :
        \A i \in 1..Len(Heap[s]._spectrum) :
            i > n_bins_of(Heap[s]._number_of_samples, Heap[s]._signal_traits)
                => Heap[s]._spectrum[i] = Canary

----------------------------------------------------------------------------
\* Properties of the Combiner (SpecCombined)

\* C4: a Combiner push that returns SDFT_SIGNAL_TRAIT_VIOLATION leaves both
\* inner engines and the cycle counter as they were, at every counter value.
C4_RejectedCombinedPushMutatesNothing ==
    [][(op' = "sdft_push_next_sample" /\ err' = SDFT_SIGNAL_TRAIT_VIOLATION)
        => (fst' = fst /\ snd' = snd /\ combined' = combined)]_vars

\* C6 as stated: the engine get_spectrum selects has received at most
\* window_size pushes since it was last reset to zero.
C6_SelectedAtMostWindowSize ==
    Heap[Combined_selected(Heap, "combined")].pushes
        <= combined._number_of_samples

\* C6 as amended: the engine get_spectrum selects has received at most
\* 2 * window_size pushes since it was last reset to zero (since it was
\* constructed over zeroed buffers, for the first engine before its first
\* reset).
C6_SelectedAtMostTwoWindowSizes ==
    Heap[Combined_selected(Heap, "combined")].pushes
        <= 2 * combined._number_of_samples

\* C6 witness: the selected engine is the second and is 2 * W pushes old.
C6_Witness ==
    /\ combined._number_of_samples = 4
    /\ combined._clear_counter = 8
    /\ Combined_selected(Heap, "combined") = "snd"
    /\ snd.pushes = 8

\* C7: no inner engine receives more than 2 * window_size pushes between two
\* consecutive resets.
C7_AtMostTwoWindowSizesBetweenResets ==
    /\ fst.pushes <= 2 * combined._number_of_samples
    /\ snd.pushes <= 2 * combined._number_of_samples

\* C7 witness: the first engine, reset once already, is 2 * W pushes old and
\* is reset by the next push.
C7_Witness ==
    /\ combined._number_of_samples = 2
    /\ combined._clear_counter = 2
    /\ fst.pushes = 4
    /\ snd.pushes = 2

\* C21: whenever a Combiner push resets one inner engine, the other one has
\* received at least W accepted pushes since its own last reset, and no push
\* resets both.  (A push has reset an engine iff the engine's count of pushes
\* since its last reset is lower than the push alone would leave it.)
C21_ResetKeepsHistory ==
    [][op' = "sdft_push_next_sample" =>
        LET W == combined._number_of_samples
            accepted == IF err' = SDFT_NO_ERROR THEN 1 ELSE 0
            first_reset == fst'.pushes < fst.pushes + accepted
            second_reset == snd'.pushes < snd.pushes + accepted
        IN /\ first_reset => snd.pushes >= W
           /\ second_reset => fst.pushes >= W
           /\ ~(first_reset /\ second_reset)
      ]_vars

\* C21 witness: the fifth push into a Combiner of window size 4 has reset the
\* first engine; the second holds the last four samples.
C21_Witness ==
    /\ op = "sdft_push_next_sample"
    /\ err = SDFT_NO_ERROR
    /\ combined._number_of_samples = 4
    /\ combined._clear_counter = 5
    /\ fst.pushes = 1
    /\ snd.pushes = 5
    /\ TemporalWindow(snd) = pushed
    /\ pushed[1] # pushed[2]
    /\ pushed[2] # pushed[3]

\* C22: the cycle counter of a Combiner stays within 0 .. 2 * W (what the
\* assertions of push_next_sample, get_spectrum and unshift_and_get_signal
\* demand), it is 0 only before the first accepted push, and an accepted push
\* takes the counter c to c + 1 if c < 2 * W and to 1 if c = 2 * W.
C22_CycleCounter ==
    [][LET W == combined._number_of_samples
           c == combined._clear_counter
           cnext == combined'._clear_counter
       IN /\ 0 <= cnext /\ cnext <= 2 * W
          /\ cnext = 0 => npushed' = 0
          /\ (op' = "sdft_push_next_sample" /\ err' = SDFT_NO_ERROR) =>
                cnext = (IF c < 2 * W THEN c + 1 ELSE 1)
      ]_vars

\* The element an engine's last accepted push stored.
LastStored(e) ==
    e._signal[((e._signal_index + e._number_of_samples - 1)
                  % e._number_of_samples) + 1]

\* C24: every Combiner push is either accepted by both inner engines, each
\* storing the sample, with the cycle counter incremented; or rejected by the
\* first engine with the second engine untouched and no increment.
C24_LockStep ==
    [][op' = "sdft_push_next_sample" =>
        LET W == combined._number_of_samples
            c == IF combined._clear_counter = 2 * W
                 THEN 0 ELSE combined._clear_counter
        IN /\ err' = SDFT_NO_ERROR =>
                /\ LastStored(fst') = next_sample'
                /\ LastStored(snd') = next_sample'
                /\ fst'.pushes >= 1 /\ snd'.pushes >= 1
                /\ combined'._clear_counter = c + 1
           /\ err' # SDFT_NO_ERROR =>
                /\ err' = SDFT_SIGNAL_TRAIT_VIOLATION
                /\ ViolatesTrait(fst._signal_traits, next_sample')
                /\ snd' = snd
                /\ combined'._clear_counter # c + 1
      ]_vars

\* C10: sdft_init_combine with a Combiner as first or as second operand
\* returns SDFT_NOT_COMBINABLE and changes no engine of that Combiner.
C10_CombinedNotCombinable ==
    [][op' = "sdft_init_combine"
        => /\ err' = SDFT_NOT_COMBINABLE
           /\ fst' = fst /\ snd' = snd /\ combined' = combined
           /\ nested' = nested]_vars

\* C10 witness: a refused combination while the second engine, which a
\* combination would reset, holds samples.
C10_Witness ==
    /\ op = "sdft_init_combine"
    /\ err = SDFT_NOT_COMBINABLE
    /\ combined.built
    /\ snd.pushes > 0
    /\ snd._signal # ZeroBuffer(snd._number_of_samples)

----------------------------------------------------------------------------
\* Properties of the test loop (SpecTest)

C20_AuthorityAlternation ==
    [][LET W == combined._number_of_samples
           sel == IF combined._clear_counter <= W THEN "fst" ELSE "snd"
           other == IF sel = "fst" THEN "snd" ELSE "fst"
           selnext == IF combined'._clear_counter <= W THEN "fst" ELSE "snd"
       IN /\ op' = "sdft_get_spectrum" => ret' = Heap[sel]._spectrum
          /\ op' = "sdft_unshift_and_get_signal" =>
                /\ ret' = Impl_unshift_and_get_signal(Heap[sel])._signal
                /\ ret' = Heap'[sel]._signal
                /\ Heap'[other] = Heap[other]
          /\ op' = "sdft_push_next_sample" =>
                /\ err' = SDFT_NO_ERROR
                /\ (selnext # sel) <=> (snd.pushes \in {W, 2 * W})
                /\ (selnext = "fst") <=> (snd'.pushes <= W)
      ]_vars

\* C20 witness: the ninth push into a Combiner of window size 4 has just
\* handed the authority back to the first engine.
C20_Witness ==
    /\ op = "sdft_push_next_sample"
    /\ err = SDFT_NO_ERROR
    /\ combined._number_of_samples = 4
    /\ combined._clear_counter = 1
    /\ fst.pushes = 5
    /\ snd.pushes = 1
    /\ Combined_get_spectrum(Heap, "combined") = fst._spectrum
    /\ fst._spectrum # snd._spectrum

----------------------------------------------------------------------------
\* Properties of the Combiner beside a standalone engine (SpecEquiv)

\* What the caller reads after a push is the same from both.
SameObservation ==
    /\ op = "sdft_get_spectrum" =>
          \A k \in RetainedBins(ref) : ret[k] = ret_ref[k]
    /\ op = "sdft_unshift_and_get_signal" => ret = ret_ref

\* The spectrum the caller supplied is the transform of the window supplied.
InitialSpectrumMatches ==
    \A k \in RetainedBins(ref) :
        initial.spectrum[k] = dft(initial.signal, ref._number_of_samples)[k]

\* C8 as stated: over the same initial window and spectrum content, after
\* every push the Combiner's spectrum (retained bins) and window equal the
\* standalone engine's.
C8_CombinedEqualsStandalone == SameObservation

\* C8 as amended: the same, provided the initial spectrum is the transform of
\* the initial window on the retained bins (as it is over zeroed buffers).
C8_CombinedEqualsStandaloneFromMatchingSpectrum ==
    InitialSpectrumMatches => SameObservation

\* C8 witness: a pre-filled window with its transform; the spectrum read from
\* the second engine after the switch, with a bin other than bin 0 not zero.
C8_Witness ==
    /\ InitialSpectrumMatches
    /\ initial.signal # ZeroBuffer(ref._number_of_samples)
    /\ op = "sdft_get_spectrum"
    /\ ref._number_of_samples = 4
    /\ Combined_selected(Heap, "combined") = "snd"
    /\ ret[2] # my_complex_zero
    /\ ret = ret_ref

----------------------------------------------------------------------------
\* Properties of sdft_init_combine on two engines (SpecCombine)

\* C9: when the two engines differ in window size, signal trait or
\* precision, sdft_init_combine returns SDFT_NOT_COMBINABLE and modifies
\* neither of them.
C9_NotCombinableDetected ==
    [][(op' = "sdft_init_combine"
            /\ (\/ fst._number_of_samples # snd._number_of_samples
                \/ fst._signal_traits # snd._signal_traits
                \/ fst.precision # snd.precision))
        => /\ err' = SDFT_NOT_COMBINABLE
           /\ fst' = fst /\ snd' = snd /\ combined' = combined]_vars

\* C9 witness: two engines that hold samples and differ in precision only.
C9_Witness ==
    /\ op = "sdft_init_combine"
    /\ err = SDFT_NOT_COMBINABLE
    /\ fst._number_of_samples = snd._number_of_samples
    /\ fst._signal_traits = snd._signal_traits
    /\ fst.precision # snd.precision
    /\ fst._signal # ZeroBuffer(fst._number_of_samples)
    /\ snd._signal # ZeroBuffer(snd._number_of_samples)

\* C11: when the two engines agree in window size, signal trait and
\* precision, sdft_init_combine returns SDFT_NO_ERROR; the second engine's
\* window and spectrum are zero and its write index is 0; the first engine is
\* as it was; the cycle counter is 0; and the spectrum and the window the new
\* Combiner hands out are the first engine's.
C11_CombinePostcondition ==
    [][(op' = "sdft_init_combine"
            /\ fst._number_of_samples = snd._number_of_samples
            /\ fst._signal_traits = snd._signal_traits
            /\ fst.precision = snd.precision)
        => /\ err' = SDFT_NO_ERROR
           /\ combined'.built
           /\ combined'._clear_counter = 0
           /\ {combined'._first, combined'._second} = ImplNames
           /\ LET first == combined'._first
                  second == combined'._second
              IN /\ Heap'[second]._signal
                        = ZeroBuffer(Heap[second]._number_of_samples)
                 /\ Heap'[second]._spectrum
                        = ZeroBuffer(Heap[second]._number_of_samples)
                 /\ Heap'[second]._signal_index = 0
                 /\ Heap'[first]._signal = Heap[first]._signal
                 /\ Heap'[first]._spectrum = Heap[first]._spectrum
                 /\ Heap'[first]._signal_index = Heap[first]._signal_index
                 /\ sdft_get_spectrum(Heap', "combined") = Heap[first]._spectrum
                 /\ sdft_unshift_and_get_signal(Heap', "combined").ret
                        = Impl_unshift_and_get_signal(Heap[first])._signal
      ]_vars

\* C11 witness: a Combiner built with snd as first and fst as second; the
\* first holds a sample at write index 1 and the second is zero.
C11_Witness ==
    /\ op = "sdft_init_combine"
    /\ err = SDFT_NO_ERROR
    /\ combined.built
    /\ combined._first = "snd"
    /\ combined._second = "fst"
    /\ snd._number_of_samples = 4
    /\ snd._signal_index = 1
    /\ snd._signal[1] # my_complex_zero
    /\ snd._spectrum[2] # my_complex_zero
    /\ fst._signal = ZeroBuffer(4)
    /\ fst._spectrum = ZeroBuffer(4)
    /\ sdft_get_spectrum(Heap, "combined") = snd._spectrum

----------------------------------------------------------------------------
\* The variant of src/sdft.c and src/templated_functions.h: one struct
\* sdft_State with public fields, no Combiner and no error codes.  The field
\* pushes is history: the pushes made since sdft_init.

\* number_of_bins of sdft.c
number_of_bins(s) ==
    IF s.signal_traits = SDFT_REAL_AND_IMAG
    THEN s.number_of_samples
    ELSE s.number_of_samples \div 2

\* impl_init: takes the caller's buffers as they are, index 0, and fills the
\* phase offsets.
impl_init(signal, spectrum, number_of_samples, signal_traits) ==
    [signal |-> signal,
     spectrum |-> spectrum,
     phase_offsets |-> [i \in 1..number_of_samples |->
                            phase_offset(i - 1, number_of_samples)],
     signal_index |-> 0,
     number_of_samples |-> number_of_samples,
     push_next_sample |-> "impl_push_next_sample",
     unshift_signal |-> "impl_unshift_signal",
     signal_traits |-> signal_traits,
     pushes |-> 0]

\* The assertions at the start of impl_push_next_sample: the index is in the
\* window and the sample satisfies the trait.
impl_push_next_sample_assertions(s, ns) ==
    /\ s.signal_index >= 0 /\ s.signal_index < s.number_of_samples
    /\ \/ s.signal_traits = SDFT_REAL_AND_IMAG
       \/ (s.signal_traits = SDFT_REAL_ONLY /\ imag(ns) = 0)
       \/ (s.signal_traits = SDFT_IMAG_ONLY /\ real(ns) = 0)

\* impl_push_next_sample: the new state; it returns nothing.
impl_push_next_sample(s, ns) ==
    LET signal == s.signal
        delta == my_complex_sub(ns, signal[s.signal_index + 1])
        n_samples == s.number_of_samples
        n_bins == number_of_bins(s)
        po == s.phase_offsets
        spec == [i \in 1..Len(s.spectrum) |->
                    IF i <= n_bins
                    THEN my_complex_mult(my_complex_add(s.spectrum[i], delta),
                                         po[i])
                    ELSE s.spectrum[i]]
    IN [s EXCEPT !.signal[s.signal_index + 1] = my_complex_add(@, delta),
                 !.spectrum = spec,
                 !.signal_index = IF s.signal_index + 1 = n_samples
                                  THEN 0 ELSE s.signal_index + 1,
                 !.pushes = @ + 1]

\* impl_unshift_signal: the new state.  It rotates the window along the cycle
\* from slot 0 and leaves signal_index as it is.
impl_unshift_signal(s) ==
    IF s.signal_index = 0
    THEN s
    ELSE LET n == s.number_of_samples
             ofs == s.signal_index
             first == s.signal[1]
             r == unshift_cycle(s.signal, 0, ofs, n, 0)
         IN [s EXCEPT !.signal = [r.signal EXCEPT ![r.cur + 1] = first]]

\* sdft_init of sdft.c: the precisions differ in the float type only.
sdft_init(precision, signal, spectrum, number_of_samples, signal_traits) ==
    impl_init(signal, spectrum, number_of_samples, signal_traits)

\* sdft_unshift_signal of sdft.c: calls through s->unshift_signal.
sdft_unshift_signal(s) ==
    IF s.unshift_signal = "impl_unshift_signal"
    THEN impl_unshift_signal(s)
    ELSE s

\* sdft_push_next_sample of sdft.c: calls through s->push_next_sample.
legacy_sdft_push_next_sample(s, ns) ==
    IF s.push_next_sample = "impl_push_next_sample"
    THEN impl_push_next_sample(s, ns)
    ELSE s

----------------------------------------------------------------------------
\* SpecLegacy: one state ref of the sdft.c variant over a window the caller
\* pre-filled, given pushes of samples of its trait (up to MaxStream) and
\* sdft_unshift_signal (up to MaxUnshifts times in a row) in any order; after
\* an unshift the caller reads the window.

InitLegacy ==
    /\ \E N \in WindowSizes, traits \in sdft_SignalTraits :
        \E signal \in InitialWindows(N, traits) :
          \E spectrum \in InitialSpectra(signal, N) :
            /\ ref = sdft_init(SDFT_DOUBLE, signal, spectrum, N, traits)
            /\ initial = [signal |-> signal, spectrum |-> spectrum]
    /\ fst = NoCombined
    /\ snd = NoCombined
    /\ combined = NoCombined
    /\ nested = NoCombined
    /\ op = "sdft_init"
    /\ err = SDFT_NO_ERROR
    /\ next_sample = my_complex_zero
    /\ ret = NoBuffer
    /\ ret_ref = NoBuffer
    /\ pushed = initial.signal
    /\ npushed = 0
    /\ nunshift = 0

LegacyPush(ns) ==
    /\ ref.pushes < MaxStream
    /\ impl_push_next_sample_assertions(ref, ns)
    /\ ref' = legacy_sdft_push_next_sample(ref, ns)
    /\ op' = "sdft_push_next_sample"
    /\ next_sample' = ns
    /\ ret' = NoBuffer
    /\ ret_ref' = NoBuffer
    /\ Record(SDFT_NO_ERROR, ns)
    /\ nunshift' = 0
    /\ UNCHANGED <<fst, snd, combined, nested, err, initial>>

LegacyUnshift ==
    /\ nunshift < MaxUnshifts
    /\ ref' = sdft_unshift_signal(ref)
    /\ op' = "sdft_unshift_signal"
    /\ ret' = NoBuffer
    /\ ret_ref' = ref'.signal
    /\ nunshift' = nunshift + 1
    /\ UNCHANGED <<fst, snd, combined, nested, err, next_sample, pushed,
                   npushed, initial>>

NextLegacy ==
    \/ \E ns \in Samples : LegacyPush(ns)
    \/ LegacyUnshift

SpecLegacy == InitLegacy /\ [][NextLegacy]_vars

\* C26: in the sdft.c variant a second sdft_unshift_signal right after a first
\* one leaves the window as the first one left it, and a push right after an
\* unshift overwrites the oldest sample of the window (the slot it writes
\* holds the oldest of the last W samples, and no other slot changes).
C26_LegacyUnshift ==
    [][/\ (op = "sdft_unshift_signal" /\ op' = "sdft_unshift_signal")
            => ref'.signal = ref.signal
       /\ (op = "sdft_unshift_signal" /\ op' = "sdft_push_next_sample")
            => /\ ref.signal[ref.signal_index + 1] = pushed[1]
               /\ \A i \in 1..ref.number_of_samples :
                    i # ref.signal_index + 1 => ref'.signal[i] = ref.signal[i]]_vars

====
